---- MODULE Spec2Model ----
(***************************************************************************)
(* Payment confirmation and ledger reconciliation of the PhotoPay backend. *)
(*                                                                         *)
(* The request handlers of backend/main.py are coroutines on one event     *)
(* loop: a handler runs without interruption between two awaits, and the   *)
(* only await of confirm_purchase is the ledger call of                    *)
(* SolanaService.verify_transaction.  A confirm request is therefore two   *)
(* steps, ConfirmBegin (up to the await) and ConfirmFinish (the reply and  *)
(* the rest of the handler); other requests interleave between the two.    *)
(*                                                                         *)
(* Amounts.  price_sol and every other SOL amount is a double.  A double   *)
(* is modelled as an integer count of tenths of a lamport: Float(n) is the *)
(* double nearest to n lamports, n*10 plus a deviation of -1, 0 or +1      *)
(* that stands for the representation error of that double.                *)
(***************************************************************************)
EXTENDS Integers, Sequences, FiniteSets, TLC

VARIABLES
    listings,   \* table listings: id -> row
    users,      \* table users: the wallet addresses that have a row
    purchases,  \* table purchases: sequence of rows, a row's id is its index
    clock,      \* datetime.utcnow(): the next timestamp to be read
    visible,    \* the signatures whose transaction the ledger node returns
    pc,         \* per client: "idle", "verifying" (awaiting the ledger), "done"
    req,        \* per client: the request being served
    existing,   \* per client: the row as read by signature before the await, <<>> for None
    outcome,    \* per client: why verify_transaction answered as it did
    resp,       \* per client: the HTTP response
    called,     \* per client: whether this request issued a ledger call
    owned0,     \* per client: a CONFIRMED row for (listing, buyer) existed at the start
    retry,      \* per client: this request repeats one that failed retriably
    params,     \* per client: the transfer parameters initiate returned
    returned,   \* per signature: the row contents confirm has returned with 200
    started,    \* the number of requests received so far
    vq,         \* the arguments of a call of verify_transaction made on its own
    vr          \* what that call found, "" before it is made

vars == <<listings, users, purchases, clock, visible, pc, req, existing,
          outcome, resp, called, owned0, retry, params, returned, started,
          vq, vr>>

----------------------------------------------------------------------------
(* Bounds and the finite universe of inputs *)

\* the number of purchase requests (initiate, confirm) a run receives
MaxRequests == 4

Clients == {"p1", "p2"}
Buyers == {"b1", "b2"}
Creators == {"c1", "c2"}
ListingIds == {"l1", "l2"}
Sigs == {"sA", "sB", "sE", "sN"}

\* the confirm requests clients send: <<listing, buyer, signature>>; "l0" names
\* no listing
ConfirmInputs ==
    {<<"l1", "b1", "sA">>, <<"l1", "b1", "sB">>, <<"l2", "b1", "sB">>,
     <<"l1", "b1", "sE">>, <<"l1", "b1", "sN">>, <<"l1", "b2", "sA">>,
     <<"l0", "b1", "sA">>, <<"l1", "bx", "sA">>}

\* the initiate requests clients send: <<listing, buyer>>
InitiateInputs == {<<"l1", "b1">>, <<"l2", "b1">>, <<"l0", "b1">>, <<"l1", "bx">>}

\* the signatures whose status clients ask for, and the wallets whose
\* unlocked content they ask for
StatusInputs == {"sA"}
UnlockedInputs == {"b1", "b2", "bx"}

\* the text of a wallet name: "bx" is one character short of an address
Malformed == {"bx"}
AddressText ==
    [w \in Buyers \cup Creators \cup Malformed |->
        [base58 |-> TRUE, length |-> IF w \in Malformed THEN 31 ELSE 44]]

\* helper.py: ^[1-9A-HJ-NP-Za-km-z]{32,44}$
is_valid_solana_address(address) ==
    /\ AddressText[address].base58
    /\ AddressText[address].length \in 32..44

\* what the gateway does when asked: SANCTUM_GATEWAY_ENABLED is not "true",
\* the request fails (timeout, transport error, status other than 200), or it
\* answers with a fee
GatewayStates == {"disabled", "failing", "serving"}

\* gateway_service.py: the fee, 0 for None
get_priority_fee_estimate(gw) == IF gw = "serving" THEN 5000 ELSE 0

\* if priority_fee: transaction_data['priority_fee'] = priority_fee; ...
with_priority_fee(transaction_data, priority_fee) ==
    IF priority_fee # 0
    THEN transaction_data @@ [priority_fee |-> priority_fee, optimized |-> TRUE]
    ELSE transaction_data

\* lamport amounts whose double lies below the decimal value, so that the
\* product with 1e9 falls short of the integer
RoundsDown == {5000}
RoundsUp == {7000}

\* the double nearest to n lamports, in tenths of a lamport
Float(n) == n * 10 + (IF n \in RoundsDown THEN -1 ELSE IF n \in RoundsUp THEN 1 ELSE 0)

Abs(x) == IF x < 0 THEN -x ELSE x

----------------------------------------------------------------------------
(* services/solana_service.py *)

\* abs(amount_sol - expected_amount_sol) < 0.000001, in tenths of a lamport
EPSILON == 10000

lamports_to_sol(lamports) == Float(lamports)

\* int(sol * 1_000_000_000): int() truncates toward zero
sol_to_lamports(sol) == sol \div 10

\* the test with the tolerance ten times too wide
MatchesLoose(ix, expected_sender, expected_receiver, expected_amount_sol) ==
    /\ ix.parsed
    /\ ix.type = "transfer"
    /\ ix.source = expected_sender
    /\ ix.destination = expected_receiver
    /\ Abs(lamports_to_sol(ix.lamports) - expected_amount_sol) < EPSILON * 10

\* the test of one instruction inside the loop of verify_transaction
Matches(ix, expected_sender, expected_receiver, expected_amount_sol) ==
    /\ ix.parsed
    /\ ix.type = "transfer"
    /\ ix.source = expected_sender
    /\ ix.destination = expected_receiver
    /\ Abs(lamports_to_sol(ix.lamports) - expected_amount_sol) < EPSILON

\* The statements of the loop body that raise.  parsed['type'] raises
\* TypeError when parsed is a string (the memo program is parsed to its
\* text); info['source'], info['destination'], int(info['lamports']) raise
\* KeyError when a parsed transfer has no such key (a token transfer carries
\* 'amount' and 'authority').
Raises(ix) ==
    /\ ix.parsed
    /\ \/ ix.text
       \/ /\ ix.type = "transfer"
          /\ ~({"source", "destination", "lamports"} \subseteq ix.keys)

\* for ix in instructions: ... return True; "raised" when the loop body
\* raises before a match, "exhausted" when the loop ends
RECURSIVE ScanInstructions(_, _, _, _)
ScanInstructions(instructions, expected_sender, expected_receiver, expected_amount_sol) ==
    IF instructions = <<>> THEN "exhausted"
    ELSE IF Raises(Head(instructions)) THEN "raised"
    ELSE IF Matches(Head(instructions), expected_sender, expected_receiver,
                    expected_amount_sol)
         THEN "matched"
         ELSE ScanInstructions(Tail(instructions), expected_sender,
                               expected_receiver, expected_amount_sol)

VerifyOutcomeIgnoresErr(rpc, found, tx, expected_sender, expected_receiver, expected_amount_sol) ==
    IF rpc # "ok" THEN "transport_failure"
    ELSE IF ~found THEN "not_yet_visible"
    ELSE LET scan == ScanInstructions(tx.instructions, expected_sender,
                                      expected_receiver, expected_amount_sol)
         IN IF scan = "matched" THEN "verified"
            ELSE IF scan = "raised" THEN "instruction_error"
            ELSE "no_matching_transfer"

\* What verify_transaction finds.  rpc is how the ledger call ended ("ok" or
\* "transport_failure": a timeout, a connection error, a malformed reply);
\* found is whether the node returned a transaction (response.value).
VerifyOutcome(rpc, found, tx, expected_sender, expected_receiver, expected_amount_sol) ==
    IF rpc # "ok" THEN "transport_failure"            \* except Exception
    ELSE IF ~found THEN "not_yet_visible"             \* response.value is None
    ELSE IF tx.err THEN "on_chain_failure"            \* meta.err is not None
    ELSE LET scan == ScanInstructions(tx.instructions, expected_sender,
                                      expected_receiver, expected_amount_sol)
         IN IF scan = "matched" THEN "verified"
            ELSE IF scan = "raised" THEN "instruction_error"   \* except Exception
            ELSE "no_matching_transfer"

\* verify_transaction returns a bool: every outcome but one is False
verify_transaction_any(o) == TRUE

verify_transaction(o) == o = "verified"

\* create_transfer_transaction: the parameters handed to the wallet
create_transfer_transaction(from_wallet, to_wallet, amount_sol) ==
    [from_pubkey |-> from_wallet, to_pubkey |-> to_wallet,
     lamports |-> sol_to_lamports(amount_sol), amount_sol |-> amount_sol]

----------------------------------------------------------------------------
(* The ledger: the transaction each signature names, once it is visible *)

\* An instruction of the jsonParsed encoding: parsed is whether it has the
\* attribute, text whether parsed is a string and not a mapping, keys the keys
\* of parsed['info'].
Transfer(src, dst, n) ==
    [parsed |-> TRUE, text |-> FALSE, type |-> "transfer",
     keys |-> {"source", "destination", "lamports"},
     source |-> src, destination |-> dst, lamports |-> n]
\* a system instruction of another type
CreateAccount ==
    [parsed |-> TRUE, text |-> FALSE, type |-> "createAccount",
     keys |-> {"source", "newAccount", "lamports", "space", "owner"},
     source |-> "", destination |-> "", lamports |-> 0]
\* an instruction of the memo program
Memo ==
    [parsed |-> TRUE, text |-> TRUE, type |-> "", keys |-> {},
     source |-> "", destination |-> "", lamports |-> 0]
\* a transfer of the token program
TokenTransfer(src, dst) ==
    [parsed |-> TRUE, text |-> FALSE, type |-> "transfer",
     keys |-> {"source", "destination", "amount", "authority"},
     source |-> src, destination |-> dst, lamports |-> 0]
\* an instruction of a program the node does not parse
Unparsed ==
    [parsed |-> FALSE, text |-> FALSE, type |-> "", keys |-> {},
     source |-> "", destination |-> "", lamports |-> 0]

Price1 == Float(5000)
Price2 == Float(7000)

Chain ==
    [s \in Sigs |->
        CASE s = "sA" -> [err |-> FALSE,
                          instructions |-> <<CreateAccount,
                                             Transfer("b1", "c1", sol_to_lamports(Price1))>>]
          [] s = "sB" -> [err |-> FALSE,
                          instructions |-> <<Transfer("b1", "c2", sol_to_lamports(Price2)),
                                             Transfer("b1", "c1", sol_to_lamports(Price1))>>]
          [] s = "sE" -> [err |-> TRUE,
                          instructions |-> <<Transfer("b1", "c1", sol_to_lamports(Price1))>>]
          [] s = "sN" -> [err |-> FALSE,
                          instructions |-> <<Memo, Transfer("b1", "c1", sol_to_lamports(Price1))>>]]

----------------------------------------------------------------------------
(* models.py and the queries of main.py *)

\* Column(String, unique=True): the commit of a row is refused when another
\* row holds its transaction_signature
SignatureFreeNoConstraint(table, signature) == TRUE

SignatureFree(table, signature) ==
    \A i \in 1..Len(table) : table[i].transaction_signature # signature

\* db.query(Purchase).filter(transaction_signature == ...).first(): the row
\* as it is now, <<>> for None
LookupBySignature(table, signature) ==
    IF \E i \in 1..Len(table) : table[i].transaction_signature = signature
    THEN <<table[CHOOSE i \in 1..Len(table) : table[i].transaction_signature = signature]>>
    ELSE <<>>

\* the query of initiate_purchase for a CONFIRMED row of (listing, buyer)
AlreadyOwned(table, listing_id, buyer_wallet) ==
    \E i \in 1..Len(table) :
        /\ table[i].listing_id = listing_id
        /\ table[i].buyer_wallet = buyer_wallet
        /\ table[i].status = "confirmed"

\* if existing_purchase: the CONFIRMED row initiate_purchase looks for
existing_purchase_none(table, listing_id, buyer_wallet) == FALSE

existing_purchase(table, listing_id, buyer_wallet) ==
    AlreadyOwned(table, listing_id, buyer_wallet)

\* the purchases table as initiate_purchase leaves it: the handler adds no
\* Purchase and touches none
InitiateWritesPending(table, listing_id, buyer_wallet, amount_sol) ==
    Append(table, [id |-> Len(table) + 1, listing_id |-> listing_id,
                   buyer_wallet |-> buyer_wallet, transaction_signature |-> "",
                   amount_sol |-> amount_sol, status |-> "pending", confirmed_at |-> 0])

InitiateWrites(table, listing_id, buyer_wallet, amount_sol) == table

\* SolanaService.get_transaction_status: the confirmation status of the
\* signature, "" for None (unknown signature, or any exception)
get_transaction_status(rpc, found) ==
    IF rpc = "ok" /\ found THEN "finalized" ELSE ""

\* the body of GET /verify/{signature}
StatusReport(signature, status, gw) ==
    IF gw = "disabled"
    THEN [signature |-> signature, status |-> status]
    ELSE [signature |-> signature, solana_status |-> status,
          gateway_status |-> IF gw = "serving" THEN "unknown" ELSE "error"]

\* the purchases table as verify_transaction_status leaves it: the handler
\* has no database session
StatusWritesSync(table, signature, status) ==
    [i \in 1..Len(table) |->
        IF table[i].transaction_signature = signature /\ status = ""
        THEN [table[i] EXCEPT !.status = "pending", !.confirmed_at = 0]
        ELSE table[i]]

StatusWrites(table, signature, status) == table

\* get_unlocked_content: Purchase joined with Listing, filtered by buyer and
\* status CONFIRMED; one entry per purchase
RECURSIVE UnlockedAnyBuyer(_, _, _)
UnlockedAnyBuyer(table, ls, buyer_wallet) ==
    IF table = <<>> THEN <<>>
    ELSE LET row == Head(table)
             rest == UnlockedAnyBuyer(Tail(table), ls, buyer_wallet)
         IN IF /\ row.status = "confirmed"
               /\ row.listing_id \in DOMAIN ls
            THEN <<[listing_id |-> row.listing_id, purchased_at |-> row.confirmed_at]>>
                 \o rest
            ELSE rest

RECURSIVE Unlocked(_, _, _)
Unlocked(table, ls, buyer_wallet) ==
    IF table = <<>> THEN <<>>
    ELSE LET row == Head(table)
             rest == Unlocked(Tail(table), ls, buyer_wallet)
         IN IF /\ row.buyer_wallet = buyer_wallet
               /\ row.status = "confirmed"
               /\ row.listing_id \in DOMAIN ls
            THEN <<[listing_id |-> row.listing_id, purchased_at |-> row.confirmed_at]>>
                 \o rest
            ELSE rest

\* the row confirm_purchase inserts after a successful verification
NewPurchasePending(id, r, amount_sol, now) ==
    [id |-> id, listing_id |-> r.listing_id, buyer_wallet |-> r.buyer_wallet,
     transaction_signature |-> r.transaction_signature,
     amount_sol |-> amount_sol, status |-> "pending", confirmed_at |-> 0]

NewPurchaseTransferred(id, r, amount_sol, now) ==
    [id |-> id, listing_id |-> r.listing_id, buyer_wallet |-> r.buyer_wallet,
     transaction_signature |-> r.transaction_signature,
     amount_sol |-> lamports_to_sol(sol_to_lamports(amount_sol)),
     status |-> "confirmed", confirmed_at |-> now]

NewPurchaseNoTimestamp(id, r, amount_sol, now) ==
    [id |-> id, listing_id |-> r.listing_id, buyer_wallet |-> r.buyer_wallet,
     transaction_signature |-> r.transaction_signature,
     amount_sol |-> amount_sol, status |-> "confirmed", confirmed_at |-> 0]

NewPurchase(id, r, amount_sol, now) ==
    [id |-> id, listing_id |-> r.listing_id, buyer_wallet |-> r.buyer_wallet,
     transaction_signature |-> r.transaction_signature,
     amount_sol |-> amount_sol, status |-> "confirmed", confirmed_at |-> now]

\* existing.status = CONFIRMED; existing.confirmed_at = utcnow()
MarkConfirmed(row, now) ==
    [row EXCEPT !.status = "confirmed", !.confirmed_at = now]

\* if existing: if existing.status == CONFIRMED: return existing
FastPathNever(found) == FALSE

FastPath(found) == found # <<>> /\ found[1].status = "confirmed"

----------------------------------------------------------------------------
(* HTTP responses *)

Ok(row) == [code |-> 200, detail |-> "", body |-> <<row>>]
Err(code, detail) == [code |-> code, detail |-> detail, body |-> <<>>]
NoResp == Err(0, "")
NoReq == [op |-> "", listing_id |-> "", buyer_wallet |-> "", transaction_signature |-> ""]
NoParams == [from_pubkey |-> "", to_pubkey |-> "", lamports |-> 0, amount_sol |-> 0]
NoQuery == [expected |-> 0, delta |-> 0, source |-> "", err |-> FALSE, lead |-> "",
            found |-> FALSE]

----------------------------------------------------------------------------
Init ==
    /\ listings = [l \in ListingIds |->
                     IF l = "l1"
                     THEN [creator_wallet |-> "c1", price_sol |-> Price1, is_active |-> TRUE]
                     ELSE [creator_wallet |-> "c2", price_sol |-> Price2, is_active |-> TRUE]]
    /\ users = Creators
    /\ purchases = <<>>
    /\ clock = 1
    /\ visible = Sigs \ {"sA"}
    /\ pc = [p \in Clients |-> "idle"]
    /\ req = [p \in Clients |-> NoReq]
    /\ existing = [p \in Clients |-> <<>>]
    /\ outcome = [p \in Clients |-> ""]
    /\ resp = [p \in Clients |-> NoResp]
    /\ called = [p \in Clients |-> FALSE]
    /\ owned0 = [p \in Clients |-> FALSE]
    /\ retry = [p \in Clients |-> FALSE]
    /\ params = [p \in Clients |-> NoParams]
    /\ returned = [s \in Sigs |-> {}]
    /\ started = 0
    /\ vq = NoQuery
    /\ vr = ""

----------------------------------------------------------------------------
(* main.py: POST /confirm, up to the await of verify_transaction *)

ConfirmBegin(p, r, again, carried) ==
    LET found == LookupBySignature(purchases, r.transaction_signature) IN
    /\ started < MaxRequests
    /\ started' = started + 1
    /\ req' = [req EXCEPT ![p] = r]
    /\ retry' = [retry EXCEPT ![p] = again]
    /\ params' = [params EXCEPT ![p] = carried]
    /\ owned0' = [owned0 EXCEPT ![p] = AlreadyOwned(purchases, r.listing_id, r.buyer_wallet)]
    /\ outcome' = [outcome EXCEPT ![p] = ""]
    /\ IF r.listing_id \notin DOMAIN listings
       THEN \* if not listing: raise HTTPException(404)
            /\ pc' = [pc EXCEPT ![p] = "done"]
            /\ resp' = [resp EXCEPT ![p] = Err(404, "Listing not found")]
            /\ existing' = [existing EXCEPT ![p] = <<>>]
            /\ called' = [called EXCEPT ![p] = FALSE]
            /\ UNCHANGED returned
       ELSE IF FastPath(found)
       THEN \* return existing
            /\ pc' = [pc EXCEPT ![p] = "done"]
            /\ resp' = [resp EXCEPT ![p] = Ok(found[1])]
            /\ existing' = [existing EXCEPT ![p] = found]
            /\ called' = [called EXCEPT ![p] = FALSE]
            /\ returned' = [returned EXCEPT ![r.transaction_signature] = @ \cup {found[1]}]
       ELSE \* await solana_service.verify_transaction(...)
            /\ pc' = [pc EXCEPT ![p] = "verifying"]
            /\ resp' = [resp EXCEPT ![p] = NoResp]
            /\ existing' = [existing EXCEPT ![p] = found]
            /\ called' = [called EXCEPT ![p] = TRUE]
            /\ UNCHANGED returned
    /\ UNCHANGED <<vq, vr, listings, users, purchases, clock, visible>>

ConfirmRequest(l, b, s) ==
    [op |-> "confirm", listing_id |-> l, buyer_wallet |-> b, transaction_signature |-> s]

\* a new confirm request
Confirm(p, l, b, s) ==
    /\ pc[p] = "idle"
    /\ ConfirmBegin(p, ConfirmRequest(l, b, s), FALSE, NoParams)

\* the client that received transfer parameters from initiate confirms with
\* the signature of the transaction it submitted
ConfirmAfterInitiate(p, s) ==
    /\ pc[p] = "done"
    /\ req[p].op = "initiate"
    /\ resp[p].code = 200
    /\ ConfirmBegin(p, ConfirmRequest(req[p].listing_id, req[p].buyer_wallet, s),
                    FALSE, params[p])

Retriable == {"transport_failure", "not_yet_visible"}
Terminal == {"on_chain_failure", "no_matching_transfer"}

\* the client repeats a confirm request that failed because the ledger was
\* unreachable or did not know the transaction yet
ConfirmRetry(p) ==
    /\ pc[p] = "done"
    /\ req[p].op = "confirm"
    /\ outcome[p] \in Retriable
    /\ ConfirmBegin(p, req[p], TRUE, NoParams)

(* main.py: POST /confirm, from the reply of the ledger to the response.     *)
(* The tables are those of the default DATABASE_URL (SQLite): the unique     *)
(* index on transaction_signature is enforced, the foreign keys of a         *)
(* purchase are not.  No request writes a PENDING or FAILED row: the only    *)
(* exception the except Exception branch can receive is the failed commit of *)
(* the CONFIRMED row, and its own commit then fails as well.  The branch     *)
(* that updates a row found PENDING is kept as the code has it.              *)
ConfirmFinish(p) ==
    /\ pc[p] = "verifying"
    /\ \E rpc \in {"ok", "transport_failure"} :
        LET r == req[p]
            s == r.transaction_signature
            listing == listings[r.listing_id]
            o == VerifyOutcome(rpc, s \in visible, Chain[s], r.buyer_wallet,
                               listing.creator_wallet, listing.price_sol)
            id == existing[p][1].id
            updated == MarkConfirmed(purchases[id], clock)
            inserted == NewPurchase(Len(purchases) + 1, r, listing.price_sol, clock)
        IN
        /\ outcome' = [outcome EXCEPT ![p] = o]
        /\ IF ~verify_transaction(o)
           THEN \* if not is_valid: raise HTTPException(400), re-raised as it is
                /\ resp' = [resp EXCEPT ![p] = Err(400, "Transaction verification failed")]
                /\ UNCHANGED <<purchases, clock, returned>>
           ELSE IF existing[p] # <<>>
           THEN \* if existing: the row read before the await is updated
                /\ purchases' = [purchases EXCEPT ![id] = updated]
                /\ clock' = clock + 1
                /\ resp' = [resp EXCEPT ![p] = Ok(updated)]
                /\ returned' = [returned EXCEPT ![s] = @ \cup {updated}]
           ELSE IF SignatureFree(purchases, s)
           THEN \* db.add(new_purchase); db.commit(); db.refresh(new_purchase)
                /\ purchases' = Append(purchases, inserted)
                /\ clock' = clock + 1
                /\ resp' = [resp EXCEPT ![p] = Ok(inserted)]
                /\ returned' = [returned EXCEPT ![s] = @ \cup {inserted}]
           ELSE \* db.commit() raises IntegrityError; except Exception: the
                \* PENDING row carries the same signature and the session has
                \* not been rolled back, so its commit raises too: 500
                /\ resp' = [resp EXCEPT ![p] = Err(500, "Internal server error")]
                /\ UNCHANGED <<purchases, clock, returned>>
    /\ pc' = [pc EXCEPT ![p] = "done"]
    /\ UNCHANGED <<vq, vr, listings, users, visible, req, existing, called, owned0, retry,
                   params, started>>

----------------------------------------------------------------------------
(* main.py: POST / (initiate).  No table is read or written after its await, *)
(* so the handler is one step.                                               *)
Initiate(p, l, b) ==
    /\ pc[p] = "idle"
    /\ started < MaxRequests
    /\ started' = started + 1
    /\ req' = [req EXCEPT ![p] = [op |-> "initiate", listing_id |-> l,
                                  buyer_wallet |-> b, transaction_signature |-> ""]]
    /\ pc' = [pc EXCEPT ![p] = "done"]
    /\ owned0' = [owned0 EXCEPT ![p] = AlreadyOwned(purchases, l, b)]
    /\ IF ~is_valid_solana_address(b)
       THEN /\ resp' = [resp EXCEPT ![p] = Err(400, "Invalid buyer wallet address")]
            /\ UNCHANGED <<users, purchases, params, called>>
       ELSE IF l \notin DOMAIN listings \/ ~listings[l].is_active
       THEN /\ resp' = [resp EXCEPT ![p] = Err(404, "Listing not found or inactive")]
            /\ UNCHANGED <<users, purchases, params, called>>
       ELSE IF existing_purchase(purchases, l, b)
       THEN /\ resp' = [resp EXCEPT ![p] = Err(409, "You already own this artwork")]
            /\ UNCHANGED <<users, purchases, params, called>>
       ELSE \* ensure buyer exists, then await create_transfer_transaction and
            \* the priority fee of the gateway
            /\ users' = users \cup {b}
            /\ purchases' = InitiateWrites(purchases, l, b, listings[l].price_sol)
            /\ called' = [called EXCEPT ![p] = TRUE]
            /\ \E rpc \in {"ok", "transport_failure"}, gw \in GatewayStates :
                IF rpc = "ok"
                THEN /\ resp' = [resp EXCEPT ![p] = Err(200, "")]
                     /\ params' = [params EXCEPT ![p] =
                            with_priority_fee(
                                create_transfer_transaction(b, listings[l].creator_wallet,
                                                            listings[l].price_sol),
                                get_priority_fee_estimate(gw))]
                ELSE /\ resp' = [resp EXCEPT ![p] = Err(500, "Failed to create transaction")]
                     /\ UNCHANGED params
    /\ UNCHANGED <<vq, vr, listings, clock, visible, existing, outcome, retry, returned>>

(* main.py: GET /verify/{transaction_signature}.  The handler takes no     *)
(* database session.  get_transaction_status of the ledger client and of   *)
(* the gateway both answer a value for every failure, so the response is   *)
(* always 200: the confirmation status the node reports ("" for None) and, *)
(* when the gateway is enabled, what the gateway reports.                  *)
verify_transaction_status(p, s) ==
    /\ pc[p] = "idle"
    /\ started < MaxRequests
    /\ started' = started + 1
    /\ req' = [req EXCEPT ![p] = [op |-> "verify_status", listing_id |-> "",
                                  buyer_wallet |-> "", transaction_signature |-> s]]
    /\ pc' = [pc EXCEPT ![p] = "done"]
    /\ called' = [called EXCEPT ![p] = TRUE]
    /\ \E rpc \in {"ok", "transport_failure"}, gw \in GatewayStates :
          LET status == get_transaction_status(rpc, s \in visible) IN
          /\ resp' = [resp EXCEPT ![p] = Ok(StatusReport(s, status, gw))]
          /\ purchases' = StatusWrites(purchases, s, status)
    /\ UNCHANGED <<vq, vr, listings, users, clock, visible, existing, outcome,
                   owned0, retry, params, returned>>

(* main.py: GET /unlocked/{buyer_wallet}: one entry per CONFIRMED purchase *)
(* of the buyer, joined with its listing                                   *)
get_unlocked_content(p, b) ==
    /\ pc[p] = "idle"
    /\ started < MaxRequests
    /\ started' = started + 1
    /\ req' = [req EXCEPT ![p] = [op |-> "unlocked", listing_id |-> "",
                                  buyer_wallet |-> b, transaction_signature |-> ""]]
    /\ pc' = [pc EXCEPT ![p] = "done"]
    /\ resp' = [resp EXCEPT ![p] =
                  IF ~is_valid_solana_address(b)
                  THEN Err(400, "Invalid wallet address")
                  ELSE [code |-> 200, detail |-> "",
                        body |-> Unlocked(purchases, listings, b)]]
    /\ UNCHANGED <<vq, vr, listings, users, purchases, clock, visible, existing,
                   outcome, called, owned0, retry, params, returned>>

\* the response has been delivered; the client may send another request
Return(p) ==
    /\ pc[p] = "done"
    /\ pc' = [pc EXCEPT ![p] = "idle"]
    /\ req' = [req EXCEPT ![p] = NoReq]
    /\ existing' = [existing EXCEPT ![p] = <<>>]
    /\ outcome' = [outcome EXCEPT ![p] = ""]
    /\ resp' = [resp EXCEPT ![p] = NoResp]
    /\ called' = [called EXCEPT ![p] = FALSE]
    /\ owned0' = [owned0 EXCEPT ![p] = FALSE]
    /\ retry' = [retry EXCEPT ![p] = FALSE]
    /\ params' = [params EXCEPT ![p] = NoParams]
    /\ UNCHANGED <<vq, vr, listings, users, purchases, clock, visible, returned, started>>

(* main.py: DELETE /api/listings/{id}?creator_wallet=...; 404 and 403 change *)
(* nothing                                                                  *)
delete_listing(listing_id, creator_wallet) ==
    /\ listings' =
          IF listing_id \notin DOMAIN listings THEN listings
          ELSE IF listings[listing_id].creator_wallet # creator_wallet THEN listings
          ELSE [listings EXCEPT ![listing_id].is_active = FALSE]
    /\ UNCHANGED <<vq, vr, users, purchases, clock, visible, pc, req, existing, outcome,
                   resp, called, owned0, retry, params, returned, started>>

\* the ledger: a submitted transaction becomes visible to the node
LedgerLand(s) ==
    /\ s \notin visible
    /\ visible' = visible \cup {s}
    /\ UNCHANGED <<vq, vr, listings, users, purchases, clock, pc, req, existing, outcome,
                   resp, called, owned0, retry, params, returned, started>>

Next ==
    \/ \E p \in Clients, i \in ConfirmInputs : Confirm(p, i[1], i[2], i[3])
    \/ \E p \in Clients, s \in Sigs : ConfirmAfterInitiate(p, s)
    \/ \E p \in Clients : ConfirmRetry(p)
    \/ \E p \in Clients : ConfirmFinish(p)
    \/ \E p \in Clients, i \in InitiateInputs : Initiate(p, i[1], i[2])
    \/ \E p \in Clients, s \in StatusInputs : verify_transaction_status(p, s)
    \/ \E p \in Clients, b \in UnlockedInputs : get_unlocked_content(p, b)
    \/ \E p \in Clients : Return(p)
    \/ \E l \in ListingIds : delete_listing(l, "c2")
    \/ \E s \in Sigs : LedgerLand(s)

Spec == Init /\ [][Next]_vars

----------------------------------------------------------------------------
(* verify_transaction on its own: one call per run, its arguments drawn     *)
(* from VerifyQueries.  The call expects a transfer from "b1" to "c1" of    *)
(* the price Float(expected); the transaction the node holds has one        *)
(* transfer to "c1" of expected + delta lamports from source, after the     *)
(* instruction lead names.                                                  *)

PriceLamports == {5000, 6000, 7000}
Deltas == {-1001, -1000, -999, -1, 0, 1, 999, 1000, 1001, 10000}
Leads == {"none", "create", "other", "unparsed", "memo", "token"}

VerifyQueries ==
    [expected : PriceLamports, delta : Deltas, source : Buyers, err : BOOLEAN,
     lead : Leads, found : BOOLEAN]

QueryTransaction(q) ==
    [err |-> q.err,
     instructions |->
        (CASE q.lead = "create" -> <<CreateAccount>>
           [] q.lead = "other" -> <<Transfer("b1", "c2", q.expected)>>
           [] q.lead = "unparsed" -> <<Unparsed>>
           [] q.lead = "memo" -> <<Memo>>
           [] q.lead = "token" -> <<TokenTransfer("b1", "c1")>>
           [] OTHER -> <<>>)
        \o <<Transfer(q.source, "c1", q.expected + q.delta)>>]

InitVerify ==
    /\ listings = [l \in ListingIds |->
                     IF l = "l1"
                     THEN [creator_wallet |-> "c1", price_sol |-> Price1, is_active |-> TRUE]
                     ELSE [creator_wallet |-> "c2", price_sol |-> Price2, is_active |-> TRUE]]
    /\ users = Creators
    /\ purchases = <<>>
    /\ clock = 1
    /\ visible = Sigs \ {"sA"}
    /\ pc = [p \in Clients |-> "idle"]
    /\ req = [p \in Clients |-> NoReq]
    /\ existing = [p \in Clients |-> <<>>]
    /\ outcome = [p \in Clients |-> ""]
    /\ resp = [p \in Clients |-> NoResp]
    /\ called = [p \in Clients |-> FALSE]
    /\ owned0 = [p \in Clients |-> FALSE]
    /\ retry = [p \in Clients |-> FALSE]
    /\ params = [p \in Clients |-> NoParams]
    /\ returned = [s \in Sigs |-> {}]
    /\ started = 0
    /\ vq \in VerifyQueries
    /\ vr = ""

Verify ==
    /\ vr = ""
    /\ vr' = VerifyOutcome("ok", vq.found, QueryTransaction(vq), "b1", "c1",
                           Float(vq.expected))
    /\ UNCHANGED <<listings, users, purchases, clock, visible, pc, req, existing,
                   outcome, resp, called, owned0, retry, params, returned,
                   started, vq>>

NextVerify == Verify

SpecVerify == InitVerify /\ [][NextVerify]_vars

----------------------------------------------------------------------------
(* Properties *)

Rows == 1..Len(purchases)
RowsOf(s) == {i \in Rows : purchases[i].transaction_signature = s}
ConfirmDone(p) == pc[p] = "done" /\ req[p].op = "confirm"

\* the ledger holds, under the signature of request r, a transaction that
\* verify accepts for r
ValidOnLedger(r) ==
    /\ r.listing_id \in DOMAIN listings
    /\ r.transaction_signature \in visible
    /\ VerifyOutcome("ok", TRUE, Chain[r.transaction_signature], r.buyer_wallet,
                     listings[r.listing_id].creator_wallet,
                     listings[r.listing_id].price_sol) = "verified"

\* C1: in every reachable state at most one purchase with status CONFIRMED
\* exists for a (listing_id, buyer_wallet) pair.
C1_NoDoubleOwnership ==
    \A i, j \in Rows :
        ( /\ purchases[i].status = "confirmed"
          /\ purchases[j].status = "confirmed"
          /\ purchases[i].listing_id = purchases[j].listing_id
          /\ purchases[i].buyer_wallet = purchases[j].buyer_wallet ) => i = j

\* C2: two confirm calls with the same listing, buyer and signature, the
\* transaction valid on the ledger and the ledger answering both, both end
\* with 200 and the same purchase record, also when they overlap.
C2_SameSignatureBothSucceed ==
    \A p, q \in Clients :
        ( /\ p # q
          /\ ConfirmDone(p) /\ ConfirmDone(q)
          /\ req[p] = req[q]
          /\ ValidOnLedger(req[p])
          /\ outcome[p] \notin Retriable /\ outcome[q] \notin Retriable )
        => /\ resp[p].code = 200
           /\ resp[q].code = 200
           /\ resp[p].body = resp[q].body

\* C3: in every reachable state no two purchase rows share a
\* transaction_signature, also when two confirm calls that both found no row
\* race to insert the same signature.
C3_SignatureUnique ==
    \A i, j \in Rows :
        purchases[i].transaction_signature = purchases[j].transaction_signature => i = j

\* a confirm call whose insert the storage layer refused
C3_Witness ==
    \E p \in Clients :
        /\ ConfirmDone(p)
        /\ outcome[p] = "verified"
        /\ existing[p] = <<>>
        /\ resp[p].code = 500
        /\ Cardinality(RowsOf(req[p].transaction_signature)) = 1

\* client p has ended a confirm call that found the row of its signature
\* CONFIRMED
C4_FoundConfirmed(p) ==
    ConfirmDone(p) /\ existing[p] # <<>> /\ existing[p][1].status = "confirmed"

\* the step is one of client p
C4_Stepped(p) ==
    <<pc[p], req[p], outcome[p], retry[p]>> # <<pc'[p], req'[p], outcome'[p], retry'[p]>>

C5_AlreadyOwnedRejected ==
    \A p \in Clients :
        ( /\ req[p].op = "confirm"
          /\ pc[p] \in {"verifying", "done"}
          /\ req[p].listing_id \in DOMAIN listings
          /\ existing[p] = <<>>
          /\ owned0[p] )
        => /\ pc[p] = "done"
           /\ resp[p].code = 409
           /\ ~called[p]

\* C6: when verification is rejected for an on-chain execution error or for
\* want of a matching transfer, the purchase of that signature ends FAILED.
C6_RejectedEndsFailed ==
    \A p \in Clients :
        (ConfirmDone(p) /\ outcome[p] \in Terminal)
        => \E i \in RowsOf(req[p].transaction_signature) : purchases[i].status = "failed"

\* C7: when the ledger call of confirm fails by timeout or transport error, a
\* purchase row of the signature exists afterwards with status PENDING.
C7_TransportFailureLeavesPending ==
    \A p \in Clients :
        (ConfirmDone(p) /\ outcome[p] = "transport_failure")
        => \E i \in RowsOf(req[p].transaction_signature) : purchases[i].status = "pending"

\* C8: the response to a retriable outcome (not yet visible, transport
\* failure) differs from the response to a terminal ledger rejection.
C8_RetriableDistinguishable ==
    \A p, q \in Clients :
        ( /\ ConfirmDone(p) /\ ConfirmDone(q)
          /\ outcome[p] \in Retriable
          /\ outcome[q] \in Terminal )
        => resp[p] # resp[q]

C10_PaidAsInitiated(p) ==
    LET s == req[p].transaction_signature
        tx == Chain[s]
    IN /\ ConfirmDone(p)
       /\ params[p] # NoParams
       /\ listings[req[p].listing_id].is_active
       /\ ~owned0[p]
       /\ s \in visible
       /\ outcome[p] \notin Retriable
       /\ ~tx.err
       /\ \E k \in 1..Len(tx.instructions) :
            /\ tx.instructions[k].type = "transfer"
            /\ tx.instructions[k].source = req[p].buyer_wallet
            /\ tx.instructions[k].destination = params[p].to_pubkey
            /\ tx.instructions[k].lamports = params[p].lamports

C10_ConfirmedAtPrice(p) ==
    \E i \in Rows :
        /\ purchases[i].listing_id = req[p].listing_id
        /\ purchases[i].buyer_wallet = req[p].buyer_wallet
        /\ purchases[i].transaction_signature = req[p].transaction_signature
        /\ purchases[i].status = "confirmed"
        /\ purchases[i].confirmed_at # 0
        /\ purchases[i].amount_sol = listings[req[p].listing_id].price_sol

C10_SignatureUsedElsewhere(p) ==
    \E i \in RowsOf(req[p].transaction_signature) :
        \/ purchases[i].listing_id # req[p].listing_id
        \/ purchases[i].buyer_wallet # req[p].buyer_wallet

\* C10: round trip.  Confirm after initiate, the ledger holding an error-free
\* transaction with the transfer as initiated, and no purchase row of another
\* listing or buyer holding the signature, produces a CONFIRMED purchase of
\* the listing by the buyer with confirmed_at set and amount equal to the
\* listing price.
C10_RoundTrip ==
    \A p \in Clients :
        (C10_PaidAsInitiated(p) /\ ~C10_SignatureUsedElsewhere(p))
        => C10_ConfirmedAtPrice(p)



\* C11: in every reachable state a purchase row has a confirmed_at exactly
\* when its status is CONFIRMED; status and confirmed_at are written by one
\* commit, so no state between two steps shows one without the other.
C11_ConfirmedAtIffConfirmed ==
    \A i \in Rows :
        (purchases[i].confirmed_at # 0) <=> (purchases[i].status = "confirmed")

\* a confirm call has committed a CONFIRMED row and another row followed it
C11_Witness ==
    \E p \in Clients :
        /\ ConfirmDone(p)
        /\ resp[p].code = 200
        /\ called[p]
        /\ Len(purchases) = 2
        /\ \A i \in Rows : purchases[i].status = "confirmed" /\ purchases[i].confirmed_at = i

\* C12: CONFIRMED is terminal.  No step deletes a purchase row that is
\* CONFIRMED, changes its status or rewrites its confirmed_at (or any other
\* column), whatever confirm call comes later.
C12_ConfirmedTerminal ==
    [][\A i \in Rows :
          purchases[i].status = "confirmed"
          => /\ i \in 1..Len(purchases')
             /\ purchases'[i] = purchases[i]]_vars

\* a later confirm call for the signature of the first row has been answered
\* after a second row was committed, and the first row is as it was
C12_Witness ==
    \E p \in Clients :
        /\ ConfirmDone(p)
        /\ resp[p].code = 200
        /\ existing[p] # <<>>
        /\ existing[p][1].id = 1
        /\ Len(purchases) = 2
        /\ purchases[1].status = "confirmed"
        /\ purchases[1].confirmed_at = 1

\* client p starts a confirm request in this step
ConfirmBegins(p) ==
    /\ C4_Stepped(p)
    /\ started' = started + 1
    /\ req'[p].op = "confirm"

\* C14: a confirm call whose listing id does not exist, or whose listing is
\* deactivated when the call arrives, is answered not-found (404) at once,
\* without a ledger call and without a change of the purchases table.
C14_NotFoundWhenAbsentOrInactive ==
    [][\A p \in Clients :
          ( /\ ConfirmBegins(p)
            /\ \/ req'[p].listing_id \notin DOMAIN listings
               \/ ~listings[req'[p].listing_id].is_active )
          => /\ pc'[p] = "done"
             /\ resp'[p].code = 404
             /\ ~called'[p]
             /\ purchases' = purchases]_vars

InitiateDone(p) == pc[p] = "done" /\ req[p].op = "initiate"

InitiateBegins(p) ==
    /\ C4_Stepped(p)
    /\ started' = started + 1
    /\ req'[p].op = "initiate"

\* C16: an initiate call, whatever its outcome, leaves the purchases table
\* (and the listings) as it was; the only row it may add is the user row of
\* its buyer.
C16_InitiateFrame ==
    [][\A p \in Clients :
          InitiateBegins(p)
          => /\ purchases' = purchases
             /\ listings' = listings
             /\ users \subseteq users'
             /\ users' \ users \subseteq {req'[p].buyer_wallet}]_vars

\* an initiate call has returned transfer parameters while purchases exist,
\* and the user row of its buyer is there
C16_Witness ==
    \E p \in Clients :
        /\ InitiateDone(p)
        /\ resp[p].code = 200
        /\ params[p] # NoParams
        /\ req[p].buyer_wallet \in users
        /\ Len(purchases) >= 1

\* C18: the amount of a purchase is the price its listing had when initiate
\* was called for it: the amount initiate returned to the client that went on
\* to confirm, and the price of the listing, which no request changes.
C18_AmountIsPriceAtInitiate ==
    /\ \A i \in Rows :
          purchases[i].amount_sol = listings[purchases[i].listing_id].price_sol
    /\ \A p \in Clients :
          (ConfirmDone(p) /\ params[p] # NoParams)
          => \A i \in RowsOf(req[p].transaction_signature) :
                ( /\ purchases[i].listing_id = req[p].listing_id
                  /\ purchases[i].buyer_wallet = req[p].buyer_wallet )
                => purchases[i].amount_sol = params[p].amount_sol

\* a client that initiated the purchase of the second listing has confirmed
\* it, and the row carries the amount initiate returned
C18_Witness ==
    \E p \in Clients :
        /\ ConfirmDone(p)
        /\ params[p] # NoParams
        /\ outcome[p] = "verified"
        /\ resp[p].code = 200
        /\ req[p].listing_id = "l2"
        /\ resp[p].body[1].listing_id = "l2"
        /\ resp[p].body[1].amount_sol = params[p].amount_sol

\* C19: an initiate or confirm request whose buyer wallet is malformed is
\* answered invalid-input (400) at once: no ledger call is made for it and
\* nothing is written for that wallet.
C19_MalformedWalletRejected ==
    \A p \in Clients :
        ( /\ req[p].op \in {"initiate", "confirm"}
          /\ pc[p] \in {"verifying", "done"}
          /\ ~is_valid_solana_address(req[p].buyer_wallet) )
        => /\ pc[p] = "done"
           /\ resp[p].code = 400
           /\ ~called[p]
           /\ req[p].buyer_wallet \notin users
           /\ \A i \in Rows : purchases[i].buyer_wallet # req[p].buyer_wallet

\* the call of verify_transaction has been made, the node returned an
\* error-free transaction, and its transfer to the receiver comes from the
\* expected sender, and the loop reads the instruction before it without
\* raising: only the amount can keep the transfer from matching
AmountDecides ==
    /\ vr # ""
    /\ vq.found
    /\ ~vq.err
    /\ vq.source = "b1"
    /\ vq.lead \notin {"memo", "token"}

\* C20 as claimed: a transfer whose amount differs from the expected price by
\* exactly 1000 lamports (1e-6 SOL) is accepted, and one that differs by
\* 10000 lamports (1e-5 SOL) is rejected.
C20_ToleranceBoundaryOriginal ==
    AmountDecides
    => /\ Abs(vq.delta) = 1000 => vr = "verified"
       /\ Abs(vq.delta) = 10000 => vr = "no_matching_transfer"

\* C20 as amended: a transfer whose amount differs from the expected price by
\* less than 1000 lamports is accepted, and one that differs by more than
\* 1000 lamports, 10000 among them, is rejected.
C20_ToleranceBoundary ==
    AmountDecides
    => /\ Abs(vq.delta) < 1000 => vr = "verified"
       /\ Abs(vq.delta) > 1000 => vr = "no_matching_transfer"

\* a transfer 999 lamports above the expected price has been accepted
C20_Witness ==
    /\ AmountDecides
    /\ vq.delta = 999
    /\ vr = "verified"

\* client p sends GET /verify/{signature} in this step; the handler is one step
StatusBegins(p) ==
    /\ C4_Stepped(p)
    /\ started' = started + 1
    /\ req'[p].op = "verify_status"

\* C21: GET /verify/{signature} changes no purchase, user or listing,
\* whatever the ledger and the gateway answer and however they fail.
C21_StatusReadOnly ==
    [][\A p \in Clients :
          StatusBegins(p)
          => /\ purchases' = purchases
             /\ users' = users
             /\ listings' = listings]_vars

\* the status of a signature that has a purchase has been asked for while
\* the ledger call failed and the gateway was enabled
C21_Witness ==
    \E p \in Clients :
        /\ pc[p] = "done"
        /\ req[p].op = "verify_status"
        /\ resp[p].code = 200
        /\ resp[p].body[1] = [signature |-> req[p].transaction_signature,
                              solana_status |-> "", gateway_status |-> "error"]
        /\ RowsOf(req[p].transaction_signature) # {}

\* the transaction of the query holds a transfer-type instruction from the
\* expected sender to the expected receiver of an amount within the epsilon
MatchingTransferPresent ==
    \E k \in 1..Len(QueryTransaction(vq).instructions) :
        LET ix == QueryTransaction(vq).instructions[k] IN
        /\ ix.type = "transfer"
        /\ "lamports" \in ix.keys
        /\ ix.source = "b1"
        /\ ix.destination = "c1"
        /\ Abs(lamports_to_sol(ix.lamports) - Float(vq.expected)) < EPSILON

\* C22: for a fetched, error-free transaction verify answers Verified exactly
\* when a matching transfer is in the instruction list, and the answer is
\* the same whichever other instruction precedes the transfer.
C22_VerifiedIffMatch ==
    (vr # "" /\ vq.found /\ ~vq.err)
    => /\ (vr = "verified") <=> MatchingTransferPresent
       /\ \A ld \in Leads :
            (VerifyOutcome("ok", TRUE, QueryTransaction([vq EXCEPT !.lead = ld]),
                           "b1", "c1", Float(vq.expected)) = "verified")
            <=> (vr = "verified")

\* C23: verify never answers Verified for a signature the node does not know
\* nor for a transaction whose execution error is set, also when the
\* transaction holds a transfer that matches sender, receiver and amount.
C23_NeverVerifiedUnknownOrFailed ==
    vr # ""
    => /\ ~vq.found => vr = "not_yet_visible"
       /\ (vq.found /\ vq.err) => vr = "on_chain_failure"
       /\ (~vq.found \/ vq.err) => ~verify_transaction(vr)

\* a transaction with its execution error set and an exactly matching
\* transfer as its only instruction has been rejected
C23_Witness ==
    /\ vr = "on_chain_failure"
    /\ vq.found
    /\ vq.err
    /\ vq.lead = "none"
    /\ vq.source = "b1"
    /\ vq.delta = 0
    /\ MatchingTransferPresent

\* the ledger shows the transaction of row i, and verify accepts it for the
\* row's own buyer as sender and the creator and price of the row's own
\* listing as receiver and amount
VerifiedForOwnFields(i) ==
    LET row == purchases[i] IN
    /\ row.listing_id \in DOMAIN listings
    /\ row.transaction_signature \in visible
    /\ VerifyOutcome("ok", TRUE, Chain[row.transaction_signature], row.buyer_wallet,
                     listings[row.listing_id].creator_wallet,
                     listings[row.listing_id].price_sol) = "verified"

\* C25: a purchase is CONFIRMED only if verify answers Verified for the
\* row's signature against the row's own buyer and the creator and price of
\* the row's own listing; no confirm call that names another listing or
\* buyer with the same signature makes a row CONFIRMED.
C25_ConfirmedOnlyIfVerified ==
    /\ \A i \in Rows : purchases[i].status = "confirmed" => VerifiedForOwnFields(i)
    /\ \A p \in Clients :
          ( /\ ConfirmDone(p)
            /\ \E i \in RowsOf(req[p].transaction_signature) :
                  \/ purchases[i].listing_id # req[p].listing_id
                  \/ purchases[i].buyer_wallet # req[p].buyer_wallet )
          => /\ Cardinality(RowsOf(req[p].transaction_signature)) = 1
             /\ \A i \in RowsOf(req[p].transaction_signature) : VerifiedForOwnFields(i)

\* a confirm call naming the second listing has finished for a signature whose
\* row belongs to the first listing, and that row is the only one
C25_Witness ==
    \E p \in Clients :
        /\ ConfirmDone(p)
        /\ req[p].listing_id = "l2"
        /\ Len(purchases) = 1
        /\ purchases[1].transaction_signature = req[p].transaction_signature
        /\ purchases[1].listing_id = "l1"
        /\ purchases[1].status = "confirmed"

\* C26: every purchase a successful confirm call returns has the listing_id
\* and the buyer_wallet of the request.
C26_ReturnedRowIsRequested ==
    \A p \in Clients :
        (ConfirmDone(p) /\ resp[p].code = 200)
        => /\ resp[p].body[1].listing_id = req[p].listing_id
           /\ resp[p].body[1].buyer_wallet = req[p].buyer_wallet

\* C27: in every reachable state the buyer_wallet of each purchase has a
\* user row, also when confirm is called for a buyer who never called
\* initiate.
C27_BuyerIsUser ==
    \A i \in Rows : purchases[i].buyer_wallet \in users

\* C28: an initiate call that is answered with an error leaves users,
\* purchases and listings as they were: a failed initiate creates no user.
C28_FailedInitiateWritesNothing ==
    [][\A p \in Clients :
          (InitiateBegins(p) /\ resp'[p].code # 200)
          => /\ users' = users
             /\ purchases' = purchases
             /\ listings' = listings]_vars

UnlockedDone(p) == pc[p] = "done" /\ req[p].op = "unlocked"

\* C29: every entry of the unlocked content returned for a buyer is a
\* listing for which a CONFIRMED purchase of that buyer exists.
C29_UnlockedOnlyIfConfirmed ==
    \A p \in Clients :
        (UnlockedDone(p) /\ resp[p].code = 200)
        => \A k \in 1..Len(resp[p].body) :
              \E i \in Rows :
                  /\ purchases[i].buyer_wallet = req[p].buyer_wallet
                  /\ purchases[i].listing_id = resp[p].body[k].listing_id
                  /\ purchases[i].status = "confirmed"

\* the buyer of the first listing has been shown it as unlocked
C29_Witness ==
    \E p \in Clients :
        /\ UnlockedDone(p)
        /\ resp[p].code = 200
        /\ req[p].buyer_wallet = "b1"
        /\ Len(resp[p].body) >= 1
        /\ resp[p].body[1].listing_id = "l1"

====
